---- MODULE Spec2Model ----
(***************************************************************************)
(* The Go rules engine of src/code/logic.py (class GameLogic) together     *)
(* with the move history and redo stack that src/code/go.py (class GoGame) *)
(* keeps around it.  The engine's operations are PlaceStone, Pass, Undo,   *)
(* Redo and Reset; each action below is one whole handler of GoGame, with  *)
(* the GameLogic calls it makes folded in.  Window, timer and label code   *)
(* carries no engine state and is left out.                                *)
(***************************************************************************)
EXTENDS Integers, Sequences, FiniteSets, TLC

\* ------------------------------------------------------------------ bounds
\* Side of the board (the program plays on 7; the model on a small board).
BoardSize == 2
\* Longest move history that the model lets a game grow to.
MaxMoves == 4
\* Longest move history in the games of placements and passes only.
MaxGame == 5
\* Largest value the model lets pass_count reach (the code never caps it).
MaxPass == 3
\* Side of the boards on which single calls are checked board by board.
QueryBoardSize == 3
\* Accepted placements in the move history, in the runs with the Handicap
\* menu (the handicap stones are not counted: they enter no move record).
MaxMenuMoves == 3

\* ------------------------------------------------------------------- state
VARIABLES
    board_size,       \* GameLogic.board_size, set at construction
    board_state,      \* GameLogic.board_state: [row -> [col -> -1 | 0 | 1]]
    current_player,   \* GameLogic.current_player: 1 Black, -1 White
    pass_count,       \* GameLogic.pass_count
    black_score,      \* GameLogic.black_score
    white_score,      \* GameLogic.white_score
    previous_states,  \* GameLogic.previous_states: sequence of snapshots
    captured_stones,  \* GameLogic.captured_stones: [black |-> n, white |-> n]
    move_history,     \* GoGame.move_history: sequence of move records
    redo_stack,       \* GoGame.redo_stack: sequence of move records
    last_call,        \* the handler that ran last, its arguments and outcome
    pre_states,       \* history variable: engine state at entry of the
                      \* GameLogic.place_stone call behind each move record
    phase,            \* position of the scripted caller (round-trip script)
    saved             \* history variable: board and tallies when the
                      \* round-trip script started undoing

engine_vars == <<board_state, current_player, pass_count, black_score,
                 white_score, previous_states, captured_stones,
                 move_history, redo_stack>>
vars == <<board_size, board_state, current_player, pass_count, black_score, white_score,
          previous_states, captured_stones, move_history, redo_stack,
          last_call, pre_states, phase, saved>>

Idx == 0 .. (board_size - 1)
Cells == Idx \X Idx

\* The GameLogic object as one value, so that its methods are operators.
Logic ==
    [board_state |-> board_state, current_player |-> current_player,
     pass_count |-> pass_count, black_score |-> black_score,
     white_score |-> white_score, previous_states |-> previous_states,
     captured_stones |-> captured_stones]

\* GameLogic.reset_game: the state after construction and after Reset.
reset_game ==
    [board_state |-> [r \in Idx |-> [c \in Idx |-> 0]],
     current_player |-> 1,
     pass_count |-> 0,
     black_score |-> 0,
     white_score |-> 0,
     previous_states |-> <<>>,
     captured_stones |-> [black |-> 0, white |-> 0]]

\* GameLogic.get_board_state_snapshot: tuple of tuples, a copy of the rows.
get_board_state_snapshot(b) == [r \in Idx |-> [c \in Idx |-> b[r][c]]]

\* GameLogic.get_neighbors: up, down, left, right, those in bounds.
get_neighbors(row, col) ==
    (IF row > 0 THEN << <<row - 1, col>> >> ELSE <<>>)
    \o (IF row < board_size - 1 THEN << <<row + 1, col>> >> ELSE <<>>)
    \o (IF col > 0 THEN << <<row, col - 1>> >> ELSE <<>>)
    \o (IF col < board_size - 1 THEN << <<row, col + 1>> >> ELSE <<>>)

\* GameLogic.count_liberties: depth-first walk over the stones of the seed's
\* colour; `visited` is the set the caller passes in and gets back.
\* `entered` is a history of the walk: the cells for which the body of the
\* function ran (the calls that got past the visited test), in order.
RECURSIVE count_liberties(_, _, _, _)
RECURSIVE count_liberties_loop(_, _, _, _, _, _, _)
RECURSIVE count_liberties_loop_forgetful(_, _, _, _, _, _, _)
\* Mutant: what a recursive call has visited is not kept for the calls made
\* for the next neighbours.
count_liberties_loop_forgetful(b, color, nbrs, i, visited, liberties, entered) ==
    IF i > Len(nbrs)
    THEN [liberties |-> liberties, visited |-> visited, entered |-> entered]
    ELSE LET nr == nbrs[i][1]
             nc == nbrs[i][2]
         IN IF b[nr][nc] = 0
            THEN count_liberties_loop_forgetful(b, color, nbrs, i + 1,
                     visited, liberties + 1, entered)
            ELSE IF b[nr][nc] = color
            THEN LET sub == count_liberties(b, nr, nc, visited)
                 IN count_liberties_loop_forgetful(b, color, nbrs, i + 1,
                        visited, liberties + sub.liberties,
                        entered \o sub.entered)
            ELSE count_liberties_loop_forgetful(b, color, nbrs, i + 1,
                     visited, liberties, entered)

RECURSIVE count_liberties_loop_stopping_early(_, _, _, _, _, _, _)
\* Mutant: the loop over the neighbours returns at the first liberty found.
count_liberties_loop_stopping_early(b, color, nbrs, i, visited, liberties, entered) ==
    IF i > Len(nbrs)
    THEN [liberties |-> liberties, visited |-> visited, entered |-> entered]
    ELSE LET nr == nbrs[i][1]
             nc == nbrs[i][2]
         IN IF b[nr][nc] = 0
            THEN [liberties |-> liberties + 1, visited |-> visited,
                  entered |-> entered]
            ELSE IF b[nr][nc] = color
            THEN LET sub == count_liberties(b, nr, nc, visited)
                 IN count_liberties_loop_stopping_early(b, color, nbrs, i + 1,
                        sub.visited, liberties + sub.liberties,
                        entered \o sub.entered)
            ELSE count_liberties_loop_stopping_early(b, color, nbrs, i + 1,
                     visited, liberties, entered)

count_liberties_loop(b, color, nbrs, i, visited, liberties, entered) ==
    IF i > Len(nbrs)
    THEN [liberties |-> liberties, visited |-> visited, entered |-> entered]
    ELSE LET nr == nbrs[i][1]
             nc == nbrs[i][2]
         IN IF b[nr][nc] = 0
            THEN count_liberties_loop(b, color, nbrs, i + 1, visited,
                                      liberties + 1, entered)
            ELSE IF b[nr][nc] = color
            THEN LET sub == count_liberties(b, nr, nc, visited)
                 IN count_liberties_loop(b, color, nbrs, i + 1, sub.visited,
                                         liberties + sub.liberties,
                                         entered \o sub.entered)
            ELSE count_liberties_loop(b, color, nbrs, i + 1, visited,
                                      liberties, entered)

\* Mutant: an empty seed is turned away before anything is counted.
count_liberties_refusing_empty(b, row, col, visited) ==
    IF b[row][col] = 0 \/ <<row, col>> \in visited
    THEN [liberties |-> 0, visited |-> visited, entered |-> <<>>]
    ELSE count_liberties_loop(b, b[row][col], get_neighbors(row, col), 1,
                              visited \cup {<<row, col>>}, 0,
                              << <<row, col>> >>)

count_liberties(b, row, col, visited) ==
    IF <<row, col>> \in visited
    THEN [liberties |-> 0, visited |-> visited, entered |-> <<>>]
    ELSE count_liberties_loop(b, b[row][col], get_neighbors(row, col), 1,
                              visited \cup {<<row, col>>}, 0,
                              << <<row, col>> >>)

\* Iteration over a Python set of coordinates: some fixed order, each element
\* once.  The model takes row-major order.
RECURSIVE set_iteration(_)
set_iteration(s) ==
    IF s = {} THEN <<>>
    ELSE LET m == CHOOSE x \in s :
                    \A y \in s : x[1] < y[1] \/ (x[1] = y[1] /\ x[2] <= y[2])
         IN <<m>> \o set_iteration(s \ {m})

\* The loop `for (rr, cc) in visited: board_state[rr][cc] = 0`.
clear_cells(b, s) ==
    [r \in Idx |-> [c \in Idx |-> IF <<r, c>> \in s THEN 0 ELSE b[r][c]]]

\* GameLogic.capture_stones: neighbours in order; a group found without
\* liberties is taken off the board before the next neighbour is looked at.
RECURSIVE capture_stones_loop(_, _, _, _, _)
capture_stones_loop(b, opponent, nbrs, i, captured_positions) ==
    IF i > Len(nbrs)
    THEN [board_state |-> b, captured_positions |-> captured_positions]
    ELSE LET nr == nbrs[i][1]
             nc == nbrs[i][2]
         IN IF b[nr][nc] = opponent
            THEN LET grp == count_liberties(b, nr, nc, {})
                 IN IF grp.liberties = 0
                    THEN capture_stones_loop(
                             clear_cells(b, grp.visited), opponent, nbrs,
                             i + 1,
                             captured_positions \o set_iteration(grp.visited))
                    ELSE capture_stones_loop(b, opponent, nbrs, i + 1,
                                             captured_positions)
            ELSE capture_stones_loop(b, opponent, nbrs, i + 1,
                                     captured_positions)

\* Mutant: the scan of the neighbours ends at the first group it captures.
RECURSIVE capture_first_loop(_, _, _, _)
capture_first_loop(b, opponent, nbrs, i) ==
    IF i > Len(nbrs)
    THEN [board_state |-> b, captured_positions |-> <<>>]
    ELSE LET grp == count_liberties(b, nbrs[i][1], nbrs[i][2], {})
         IN  IF b[nbrs[i][1]][nbrs[i][2]] = opponent /\ grp.liberties = 0
             THEN [board_state |-> clear_cells(b, grp.visited),
                   captured_positions |-> set_iteration(grp.visited)]
             ELSE capture_first_loop(b, opponent, nbrs, i + 1)

capture_stones_first_group(b, player, row, col) ==
    capture_first_loop(b, -player, get_neighbors(row, col), 1)

capture_stones(b, player, row, col) ==
    capture_stones_loop(b, -player, get_neighbors(row, col), 1, <<>>)

\* Mutant: a stone without liberties is suicide even when it captures.
is_suicide_ignoring_captures(b, player, row, col) ==
    count_liberties(b, row, col, {}).liberties = 0

\* GameLogic.is_suicide, on the board with the stone already placed.
\* Mutant: no placement is taken for suicide.
is_suicide_never(b, player, row, col) == FALSE

is_suicide(b, player, row, col) ==
    IF count_liberties(b, row, col, {}).liberties > 0
    THEN FALSE
    ELSE LET nbrs == get_neighbors(row, col)
         IN ~ \E i \in 1 .. Len(nbrs) :
                /\ b[nbrs[i][1]][nbrs[i][2]] = -player
                /\ count_liberties(b, nbrs[i][1], nbrs[i][2], {}).liberties = 0

\* Mutant: only the most recent snapshot is compared (simple ko).
in_previous_states_last_only(snapshot, states) ==
    states # <<>> /\ states[Len(states)] = snapshot

\* Membership of a snapshot in the list previous_states.
in_previous_states(snapshot, states) ==
    \E i \in 1 .. Len(states) : states[i] = snapshot

\* The provisional placement of place_stone, line 70.
provisional(b, player, row, col) == [b EXCEPT ![row][col] = player]

\* Mutant: the provisional stone is left on the board.
retract_forgotten(b, row, col) == b

\* The retraction of place_stone, lines 75 and 82.
retract(b, row, col) == [b EXCEPT ![row][col] = 0]

\* Mutant: the captures are credited to the player who lost the stones.
update_scores_credits_opponent(g, num_captured) ==
    IF g.current_player = 1
    THEN [g EXCEPT !.white_score = @ + num_captured,
                   !.captured_stones.white = @ + num_captured]
    ELSE [g EXCEPT !.black_score = @ + num_captured,
                   !.captured_stones.black = @ + num_captured]

\* Mutant: every captured stone is added twice.
update_scores_doubling(g, num_captured) ==
    IF g.current_player = 1
    THEN [g EXCEPT !.black_score = @ + 2 * num_captured,
                   !.captured_stones.black = @ + 2 * num_captured]
    ELSE [g EXCEPT !.white_score = @ + 2 * num_captured,
                   !.captured_stones.white = @ + 2 * num_captured]

\* The score update of place_stone, lines 89 to 95.
update_scores(g, num_captured) ==
    IF g.current_player = 1
    THEN [g EXCEPT !.black_score = @ + num_captured,
                   !.captured_stones.black = @ + num_captured]
    ELSE [g EXCEPT !.white_score = @ + num_captured,
                   !.captured_stones.white = @ + num_captured]

\* Mutant: each rejecting return statement returns a value of its own.
return_None_naming_site(g, site) ==
    [logic |-> g, valid |-> FALSE, captured |-> <<site>>, site |-> site]

\* `return None`, the statement of every rejecting branch of place_stone
\* (lines 65, 67, 76, 83): the value returned is the same at each; `site`
\* names the statement reached and is not part of the value.
return_None(g, site) ==
    [logic |-> g, valid |-> FALSE, captured |-> <<>>, site |-> site]

\* Mutant: the snapshot is taken after the captured stones are removed.
place_stone_snapshot_after_captures(g, row, col) ==
    IF row < 0 \/ col < 0 \/ row >= board_size \/ col >= board_size
    THEN return_None(g, "bounds")
    ELSE IF g.board_state[row][col] # 0
    THEN return_None(g, "occupied")
    ELSE
    LET placed == provisional(g.board_state, g.current_player, row, col)
    IN  IF is_suicide(placed, g.current_player, row, col)
        THEN return_None([g EXCEPT !.board_state = retract(placed, row, col)],
                         "suicide")
        ELSE
        LET cap == capture_stones(placed, g.current_player, row, col)
            snapshot_after_move == get_board_state_snapshot(cap.board_state)
        IN  IF in_previous_states(snapshot_after_move, g.previous_states)
            THEN return_None([g EXCEPT !.board_state =
                                           retract(placed, row, col)], "ko")
            ELSE
            LET num_captured == Len(cap.captured_positions)
                scored == update_scores(g, num_captured)
            IN  [logic |->
                   [board_state |-> cap.board_state,
                    current_player |-> g.current_player * (-1),
                    pass_count |-> 0,
                    black_score |-> scored.black_score,
                    white_score |-> scored.white_score,
                    previous_states |->
                        Append(g.previous_states, snapshot_after_move),
                    captured_stones |-> scored.captured_stones],
                 valid |-> TRUE,
                 captured |-> cap.captured_positions,
                 site |-> "accepted"]

\* GameLogic.place_stone.  The result is the object after the call, the value
\* returned (valid = FALSE for None) and the return statement reached.
place_stone(g, row, col) ==
    IF row < 0 \/ col < 0 \/ row >= board_size \/ col >= board_size
    THEN return_None(g, "bounds")
    ELSE IF g.board_state[row][col] # 0
    THEN return_None(g, "occupied")
    ELSE
    LET placed == provisional(g.board_state, g.current_player, row, col)
    IN  IF is_suicide(placed, g.current_player, row, col)
        THEN return_None([g EXCEPT !.board_state = retract(placed, row, col)],
                         "suicide")
        ELSE
        LET snapshot_after_move == get_board_state_snapshot(placed)
        IN  IF in_previous_states(snapshot_after_move, g.previous_states)
            THEN return_None([g EXCEPT !.board_state =
                                           retract(placed, row, col)], "ko")
            ELSE
            LET cap == capture_stones(placed, g.current_player, row, col)
                num_captured == Len(cap.captured_positions)
                scored == update_scores(g, num_captured)
            IN  [logic |->
                   [board_state |-> cap.board_state,
                    current_player |-> g.current_player * (-1),
                    pass_count |-> 0,
                    black_score |-> scored.black_score,
                    white_score |-> scored.white_score,
                    previous_states |->
                        Append(g.previous_states, snapshot_after_move),
                    captured_stones |-> scored.captured_stones],
                 valid |-> TRUE,
                 captured |-> cap.captured_positions,
                 site |-> "accepted"]

\* Mutant: the pass flips the player and forgets to count.
pass_turn_uncounted(g) == [g EXCEPT !.current_player = @ * (-1)]

\* Mutant: the pass adds the counter to the player instead of flipping it.
pass_turn_shifting_player(g) ==
    [g EXCEPT !.pass_count = @ + 1, !.current_player = @ + g.pass_count + 1]

\* GameLogic.pass_turn.
pass_turn(g) ==
    [g EXCEPT !.pass_count = @ + 1, !.current_player = @ * (-1)]

\* GameLogic.is_game_over.
is_game_over(g) == g.pass_count >= 2

\* The loop of undo_stone that puts the captured stones back.
RECURSIVE restore_cells(_, _, _, _)
restore_cells(b, captured_positions, i, opponent) ==
    IF i > Len(captured_positions) THEN b
    ELSE restore_cells(
             [b EXCEPT ![captured_positions[i][1]][captured_positions[i][2]]
                           = opponent],
             captured_positions, i + 1, opponent)

\* Mutant: the snapshot of the undone move stays in previous_states.
undo_stone_keeps_snapshot(g, row, col, color_of_move, captured_positions) ==
    LET n == Len(captured_positions)
        black == color_of_move = 1
    IN  [board_state |->
             restore_cells([g.board_state EXCEPT ![row][col] = 0],
                           captured_positions, 1, -color_of_move),
         current_player |-> color_of_move,
         pass_count |-> g.pass_count,
         black_score |-> IF black THEN g.black_score - n ELSE g.black_score,
         white_score |-> IF black THEN g.white_score ELSE g.white_score - n,
         previous_states |-> g.previous_states,
         captured_stones |->
             IF black THEN [g.captured_stones EXCEPT !.black = @ - n]
             ELSE [g.captured_stones EXCEPT !.white = @ - n]]

\* Mutant: the captured stones come back in the mover's colour.
undo_stone_wrong_colour(g, row, col, color_of_move, captured_positions) ==
    LET n == Len(captured_positions)
        black == color_of_move = 1
    IN  [board_state |->
             restore_cells([g.board_state EXCEPT ![row][col] = 0],
                           captured_positions, 1, color_of_move),
         current_player |-> color_of_move,
         pass_count |-> g.pass_count,
         black_score |-> IF black THEN g.black_score - n ELSE g.black_score,
         white_score |-> IF black THEN g.white_score ELSE g.white_score - n,
         previous_states |->
             IF g.previous_states # <<>>
             THEN SubSeq(g.previous_states, 1, Len(g.previous_states) - 1)
             ELSE g.previous_states,
         captured_stones |->
             IF black THEN [g.captured_stones EXCEPT !.black = @ - n]
             ELSE [g.captured_stones EXCEPT !.white = @ - n]]

\* Mutant: the undo reopens the game by clearing the pass counter.
undo_stone_clears_passes(g, row, col, color_of_move, captured_positions) ==
    LET n == Len(captured_positions)
        black == color_of_move = 1
    IN  [board_state |->
             restore_cells([g.board_state EXCEPT ![row][col] = 0],
                           captured_positions, 1, -color_of_move),
         current_player |-> color_of_move,
         pass_count |-> 0,
         black_score |-> IF black THEN g.black_score - n ELSE g.black_score,
         white_score |-> IF black THEN g.white_score ELSE g.white_score - n,
         previous_states |->
             IF g.previous_states # <<>>
             THEN SubSeq(g.previous_states, 1, Len(g.previous_states) - 1)
             ELSE g.previous_states,
         captured_stones |->
             IF black THEN [g.captured_stones EXCEPT !.black = @ - n]
             ELSE [g.captured_stones EXCEPT !.white = @ - n]]

\* GameLogic.undo_stone.
undo_stone(g, row, col, color_of_move, captured_positions) ==
    LET n == Len(captured_positions)
        black == color_of_move = 1
    IN  [board_state |->
             restore_cells([g.board_state EXCEPT ![row][col] = 0],
                           captured_positions, 1, -color_of_move),
         current_player |-> color_of_move,
         pass_count |-> g.pass_count,
         black_score |-> IF black THEN g.black_score - n ELSE g.black_score,
         white_score |-> IF black THEN g.white_score ELSE g.white_score - n,
         previous_states |->
             IF g.previous_states # <<>>
             THEN SubSeq(g.previous_states, 1, Len(g.previous_states) - 1)
             ELSE g.previous_states,
         captured_stones |->
             IF black THEN [g.captured_stones EXCEPT !.black = @ - n]
             ELSE [g.captured_stones EXCEPT !.white = @ - n]]

\* GameLogic._explore_territory: breadth-first walk from an empty cell.  The
\* set `visited` is the one calculate_territories shares between its walks;
\* every neighbour met, stone or empty, is added to it, and a neighbour
\* already in it is skipped before its colour is looked at.  `popped` is a
\* history of the walk: the cells taken off the queue, in order, one for
\* every increment of territory_size.
RECURSIVE explore_territory_loop(_, _, _, _, _, _)
RECURSIVE explore_neighbors_loop(_, _, _, _, _, _, _, _)
explore_neighbors_loop(b, nbrs, i, queue, visited, size, colors, popped) ==
    IF i > Len(nbrs)
    THEN explore_territory_loop(b, queue, visited, size, colors, popped)
    ELSE IF nbrs[i] \in visited
    THEN explore_neighbors_loop(b, nbrs, i + 1, queue, visited, size, colors,
                                popped)
    ELSE IF b[nbrs[i][1]][nbrs[i][2]] = 0
    THEN explore_neighbors_loop(b, nbrs, i + 1, Append(queue, nbrs[i]),
                                visited \cup {nbrs[i]}, size, colors, popped)
    ELSE explore_neighbors_loop(b, nbrs, i + 1, queue,
                                visited \cup {nbrs[i]}, size,
                                colors \cup {b[nbrs[i][1]][nbrs[i][2]]},
                                popped)

explore_territory_loop(b, queue, visited, size, colors, popped) ==
    IF queue = <<>>
    THEN [territory |-> size,
          owner |-> IF Cardinality(colors) = 1
                    THEN CHOOSE c \in colors : TRUE
                    ELSE 0,
          visited |-> visited,
          popped |-> popped]
    ELSE explore_neighbors_loop(b, get_neighbors(Head(queue)[1],
                                                 Head(queue)[2]),
                                1, Tail(queue), visited, size + 1, colors,
                                Append(popped, Head(queue)))

\* Mutant: every walk starts with a visited set of its own, and the set
\* that the scan shares is left as it was.
explore_territory_unshared(b, row, col, visited) ==
    [explore_territory_loop(b, << <<row, col>> >>, {<<row, col>>}, 0, {},
                            <<>>)
        EXCEPT !.visited = visited]

explore_territory(b, row, col, visited) ==
    explore_territory_loop(b, << <<row, col>> >>,
                           visited \cup {<<row, col>>}, 0, {}, <<>>)

\* GameLogic.calculate_territories: the cells in row-major order, one walk
\* from every empty cell not yet visited.  `walks` is a history of the scan:
\* the cells each walk took off its queue.
RECURSIVE calculate_territories_loop(_, _, _, _, _, _)
calculate_territories_loop(b, cells, i, visited, territories, walks) ==
    IF i > Len(cells)
    THEN [territories |-> territories, walks |-> walks]
    ELSE LET r == cells[i][1]
             c == cells[i][2]
         IN  IF cells[i] \notin visited /\ b[r][c] = 0
             THEN LET res == explore_territory(b, r, c, visited)
                  IN  calculate_territories_loop(b, cells, i + 1, res.visited,
                          IF res.owner = 1
                          THEN [territories EXCEPT
                                    !.black = @ + res.territory]
                          ELSE IF res.owner = -1
                          THEN [territories EXCEPT
                                    !.white = @ + res.territory]
                          ELSE territories,
                          Append(walks, res.popped))
             ELSE calculate_territories_loop(b, cells, i + 1, visited,
                                             territories, walks)

calculate_territories(b) ==
    calculate_territories_loop(b, set_iteration(Cells), 1, {},
                               [black |-> 0, white |-> 0], <<>>).territories

\* The history of the scan calculate_territories makes of the board.
territory_walks(b) ==
    calculate_territories_loop(b, set_iteration(Cells), 1, {},
                               [black |-> 0, white |-> 0], <<>>).walks

\* GameLogic.get_scores.
get_scores(g) ==
    LET territories == calculate_territories(g.board_state)
    IN  [black |-> g.black_score + g.captured_stones.black
                       + territories.black,
         white |-> g.white_score + g.captured_stones.white
                       + territories.white]

\* The komi of get_final_scores, 6.5 points, in half points.
KomiHalves == 13

\* GameLogic.get_final_scores; the scores are in half points, so that the
\* komi of 6.5 is the integer 13.
get_final_scores(g, territories) ==
    [black |-> 2 * (g.black_score + g.captured_stones.black
                        + territories.black),
     white |-> 2 * (g.white_score + g.captured_stones.white
                        + territories.white) + KomiHalves]

\* ----------------------------------------------------------------- actions
\* Writes a GameLogic value back into the variables.
SetLogic(g) ==
    /\ board_size' = board_size
    /\ board_state' = g.board_state
    /\ current_player' = g.current_player
    /\ pass_count' = g.pass_count
    /\ black_score' = g.black_score
    /\ white_score' = g.white_score
    /\ previous_states' = g.previous_states
    /\ captured_stones' = g.captured_stones

\* What the history variable pre_states keeps of a GameLogic value.
PreState(g) ==
    [board_state |-> g.board_state, current_player |-> g.current_player,
     black_score |-> g.black_score, white_score |-> g.white_score,
     captured_stones |-> g.captured_stones,
     previous_states |-> g.previous_states]

\* What the history variable saved keeps of the engine.
Saved ==
    [board_state |-> board_state, black_score |-> black_score,
     white_score |-> white_score, captured_stones |-> captured_stones]

\* The record last_call keeps of a handler that ran.
Call(op, valid, site, row, col, captured) ==
    [op |-> op, valid |-> valid, site |-> site, row |-> row, col |-> col,
     captured |-> captured, value |-> 0,
     scores |-> [black |-> 0, white |-> 0],
     final |-> [black |-> 0, white |-> 0]]

\* GoGame.update_labels: the handler shows get_scores(); last_call keeps
\* what was shown.
update_labels(call, g) == [call EXCEPT !.scores = get_scores(g)]

\* GoGame.show_game_over: the final scores shown, in half points.
show_game_over(call, g) ==
    [call EXCEPT !.final =
         get_final_scores(g, calculate_territories(g.board_state))]

\* Arguments the callers pass to PlaceStone: every cell, and one coordinate
\* beyond each edge.
PlaceInputs ==
    Cells \cup {<<-1, 0>>, <<0, -1>>, <<board_size, 0>>, <<0, board_size>>}

InitEngine ==
    /\ board_size = BoardSize
    /\ board_state = reset_game.board_state
    /\ current_player = reset_game.current_player
    /\ pass_count = reset_game.pass_count
    /\ black_score = reset_game.black_score
    /\ white_score = reset_game.white_score
    /\ previous_states = reset_game.previous_states
    /\ captured_stones = reset_game.captured_stones
    /\ move_history = <<>>
    /\ redo_stack = <<>>
    /\ last_call = Call("init", TRUE, "init", 0, 0, <<>>)
    /\ pre_states = <<>>
    /\ saved = Saved

\* GoGame.place_stone(row, col).  A rejected call records no coordinates in
\* last_call: the handler returns after the warning and keeps nothing.
GoGame_place_stone(row, col) ==
    LET res == place_stone(Logic, row, col)
    IN  /\ SetLogic(res.logic)
        /\ IF res.valid
           THEN /\ move_history' =
                       Append(move_history,
                              [row |-> row, col |-> col,
                               player |-> res.logic.current_player * (-1),
                               captured |-> res.captured])
                /\ redo_stack' = <<>>
                /\ pre_states' = Append(pre_states, PreState(Logic))
                /\ last_call' = update_labels(
                       Call("place_stone", TRUE, res.site, row, col,
                            res.captured), res.logic)
           ELSE /\ UNCHANGED <<move_history, redo_stack, pre_states>>
                /\ last_call' = Call("place_stone", FALSE, res.site, 0, 0,
                                     <<>>)

\* Mutant: a pass, like a new move, clears the redo stack.
GoGame_pass_turn_clearing_redo ==
    /\ SetLogic(pass_turn(Logic))
    /\ last_call' =
           IF is_game_over(pass_turn(Logic))
           THEN show_game_over(Call("pass_turn", TRUE, "pass", 0, 0, <<>>),
                               pass_turn(Logic))
           ELSE update_labels(Call("pass_turn", TRUE, "pass", 0, 0, <<>>),
                              pass_turn(Logic))
    /\ redo_stack' = <<>>
    /\ UNCHANGED <<move_history, pre_states>>

\* GoGame.pass_turn: the final scores are shown when the pass ends the
\* game, the labels are refreshed when it does not.
GoGame_pass_turn ==
    /\ SetLogic(pass_turn(Logic))
    /\ last_call' =
           IF is_game_over(pass_turn(Logic))
           THEN show_game_over(Call("pass_turn", TRUE, "pass", 0, 0, <<>>),
                               pass_turn(Logic))
           ELSE update_labels(Call("pass_turn", TRUE, "pass", 0, 0, <<>>),
                              pass_turn(Logic))
    /\ UNCHANGED <<move_history, redo_stack, pre_states>>

\* Mutant: an undo with nothing to undo drops the moves kept for redo.
GoGame_undo_move_dropping_redo ==
    IF move_history = <<>>
    THEN /\ last_call' = Call("undo_move", FALSE, "empty", 0, 0, <<>>)
         /\ redo_stack' = <<>>
         /\ UNCHANGED <<board_size, board_state, current_player, pass_count,
                        black_score,
                        white_score, previous_states, captured_stones,
                        move_history, pre_states>>
    ELSE LET last_move == move_history[Len(move_history)]
         IN  /\ move_history' = SubSeq(move_history, 1, Len(move_history) - 1)
             /\ SetLogic(undo_stone(Logic, last_move.row, last_move.col,
                                    last_move.player, last_move.captured))
             /\ redo_stack' = Append(redo_stack, last_move)
             /\ pre_states' = SubSeq(pre_states, 1, Len(pre_states) - 1)
             /\ last_call' = update_labels(
                    Call("undo_move", TRUE, "undone", last_move.row,
                         last_move.col, last_move.captured),
                    undo_stone(Logic, last_move.row, last_move.col,
                               last_move.player, last_move.captured))

\* GoGame.undo_move.
GoGame_undo_move ==
    IF move_history = <<>>
    THEN /\ last_call' = Call("undo_move", FALSE, "empty", 0, 0, <<>>)
         /\ UNCHANGED <<board_size, board_state, current_player, pass_count,
                        black_score,
                        white_score, previous_states, captured_stones,
                        move_history, redo_stack, pre_states>>
    ELSE LET last_move == move_history[Len(move_history)]
         IN  /\ move_history' = SubSeq(move_history, 1, Len(move_history) - 1)
             /\ SetLogic(undo_stone(Logic, last_move.row, last_move.col,
                                    last_move.player, last_move.captured))
             /\ redo_stack' = Append(redo_stack, last_move)
             /\ pre_states' = SubSeq(pre_states, 1, Len(pre_states) - 1)
             /\ last_call' = update_labels(
                    Call("undo_move", TRUE, "undone", last_move.row,
                         last_move.col, last_move.captured),
                    undo_stone(Logic, last_move.row, last_move.col,
                               last_move.player, last_move.captured))

\* Mutant: the redone move stays on the redo stack.
GoGame_redo_move_keeping_stack ==
    IF redo_stack = <<>>
    THEN /\ last_call' = Call("redo_move", FALSE, "empty", 0, 0, <<>>)
         /\ UNCHANGED <<board_size, board_state, current_player, pass_count,
                        black_score,
                        white_score, previous_states, captured_stones,
                        move_history, redo_stack, pre_states>>
    ELSE LET move == redo_stack[Len(redo_stack)]
             original_player == current_player
             forced == [Logic EXCEPT !.current_player = move.player]
             res == place_stone(forced, move.row, move.col)
         IN  /\ redo_stack' = redo_stack
             /\ SetLogic([res.logic EXCEPT
                              !.current_player = original_player])
             /\ IF res.valid
                THEN /\ move_history' =
                            Append(move_history,
                                   [row |-> move.row, col |-> move.col,
                                    player |-> move.player,
                                    captured |-> res.captured])
                     /\ pre_states' = Append(pre_states, PreState(forced))
                ELSE UNCHANGED <<move_history, pre_states>>
             /\ last_call' =
                    IF res.valid
                    THEN update_labels(
                             Call("redo_move", TRUE, res.site, move.row,
                                  move.col, res.captured),
                             [res.logic EXCEPT
                                  !.current_player = original_player])
                    ELSE Call("redo_move", FALSE, res.site, move.row,
                              move.col, res.captured)

\* Mutant: the redone stone is placed for whoever is to play, not for the
\* player of the record.
GoGame_redo_move_unforced ==
    IF redo_stack = <<>>
    THEN /\ last_call' = Call("redo_move", FALSE, "empty", 0, 0, <<>>)
         /\ UNCHANGED <<board_size, board_state, current_player, pass_count,
                        black_score,
                        white_score, previous_states, captured_stones,
                        move_history, redo_stack, pre_states>>
    ELSE LET move == redo_stack[Len(redo_stack)]
             original_player == current_player
             forced == Logic
             res == place_stone(forced, move.row, move.col)
         IN  /\ redo_stack' = SubSeq(redo_stack, 1, Len(redo_stack) - 1)
             /\ SetLogic([res.logic EXCEPT
                              !.current_player = original_player])
             /\ IF res.valid
                THEN /\ move_history' =
                            Append(move_history,
                                   [row |-> move.row, col |-> move.col,
                                    player |-> move.player,
                                    captured |-> res.captured])
                     /\ pre_states' = Append(pre_states, PreState(forced))
                ELSE UNCHANGED <<move_history, pre_states>>
             /\ last_call' =
                    IF res.valid
                    THEN update_labels(
                             Call("redo_move", TRUE, res.site, move.row,
                                  move.col, res.captured),
                             [res.logic EXCEPT
                                  !.current_player = original_player])
                    ELSE Call("redo_move", FALSE, res.site, move.row,
                              move.col, res.captured)

\* GoGame.redo_move.
GoGame_redo_move ==
    IF redo_stack = <<>>
    THEN /\ last_call' = Call("redo_move", FALSE, "empty", 0, 0, <<>>)
         /\ UNCHANGED <<board_size, board_state, current_player, pass_count,
                        black_score,
                        white_score, previous_states, captured_stones,
                        move_history, redo_stack, pre_states>>
    ELSE LET move == redo_stack[Len(redo_stack)]
             original_player == current_player
             forced == [Logic EXCEPT !.current_player = move.player]
             res == place_stone(forced, move.row, move.col)
         IN  /\ redo_stack' = SubSeq(redo_stack, 1, Len(redo_stack) - 1)
             /\ SetLogic([res.logic EXCEPT
                              !.current_player = original_player])
             /\ IF res.valid
                THEN /\ move_history' =
                            Append(move_history,
                                   [row |-> move.row, col |-> move.col,
                                    player |-> move.player,
                                    captured |-> res.captured])
                     /\ pre_states' = Append(pre_states, PreState(forced))
                ELSE UNCHANGED <<move_history, pre_states>>
             /\ last_call' =
                    IF res.valid
                    THEN update_labels(
                             Call("redo_move", TRUE, res.site, move.row,
                                  move.col, res.captured),
                             [res.logic EXCEPT
                                  !.current_player = original_player])
                    ELSE Call("redo_move", FALSE, res.site, move.row,
                              move.col, res.captured)

\* Mutant: the reset keeps the moves waiting for redo.
GoGame_reset_game_keeping_redo ==
    /\ SetLogic(reset_game)
    /\ move_history' = <<>>
    /\ redo_stack' = redo_stack
    /\ pre_states' = <<>>
    /\ last_call' = update_labels(
           Call("reset_game", TRUE, "reset", 0, 0, <<>>), reset_game)

\* GoGame.reset_game.
GoGame_reset_game ==
    /\ SetLogic(reset_game)
    /\ move_history' = <<>>
    /\ redo_stack' = <<>>
    /\ pre_states' = <<>>
    /\ last_call' = update_labels(
           Call("reset_game", TRUE, "reset", 0, 0, <<>>), reset_game)

\* The stone counts of the two entries of the Handicap menu.
HandicapCounts == {2, 3}

\* The corners apply_handicap fills, in its order; 6 is the last index of
\* the 7x7 board of the program.
handicap_coords ==
    << <<0, 0>>, <<0, board_size - 1>>, <<board_size - 1, 0>>,
       <<board_size - 1, board_size - 1>> >>

\* The loop of apply_handicap: Black is forced before every placement, and
\* the loop breaks at the first placement the logic rejects.
RECURSIVE handicap_loop(_, _, _)
handicap_loop(g, i, n) ==
    IF i > n
    THEN g
    ELSE LET res == place_stone(g, handicap_coords[i][1],
                                handicap_coords[i][2])
         IN  IF ~res.valid
             THEN res.logic
             ELSE handicap_loop([res.logic EXCEPT !.current_player = 1],
                                i + 1, n)

\* GoGame.apply_handicap(stones_count): refused unless the board is empty;
\* the stones go through GameLogic.place_stone and into no move record, and
\* the redo stack is not touched.
GoGame_apply_handicap(stones_count) ==
    IF \E rc \in Cells : board_state[rc[1]][rc[2]] # 0
    THEN /\ last_call' = Call("apply_handicap", FALSE, "not empty", 0, 0,
                              <<>>)
         /\ UNCHANGED <<board_size, board_state, current_player, pass_count,
                        black_score,
                        white_score, previous_states, captured_stones,
                        move_history, redo_stack, pre_states>>
    ELSE LET original_player == current_player
             n == IF stones_count < Len(handicap_coords)
                  THEN stones_count ELSE Len(handicap_coords)
             placed == handicap_loop([Logic EXCEPT !.current_player = 1],
                                     1, n)
             after == [placed EXCEPT !.current_player = original_player]
         IN  /\ SetLogic(after)
             /\ last_call' = update_labels(
                    Call("apply_handicap", TRUE, "handicap", 0, 0, <<>>),
                    after)
             /\ UNCHANGED <<move_history, redo_stack, pre_states>>

\* A placement the engine would accept is offered only while the history is
\* shorter than `limit`; rejected placements are always offered.
PlaceWithin(limit) ==
    \E rc \in PlaceInputs :
        /\ place_stone(Logic, rc[1], rc[2]).valid => Len(move_history) < limit
        /\ GoGame_place_stone(rc[1], rc[2])

\* ------------------------------------------- the engine with any caller
Init == InitEngine /\ phase = "free"

PlaceStone == PlaceWithin(MaxMoves) /\ UNCHANGED <<phase, saved>>
Pass == pass_count < MaxPass /\ GoGame_pass_turn /\ UNCHANGED <<phase, saved>>
Undo == GoGame_undo_move /\ UNCHANGED <<phase, saved>>
Redo == GoGame_redo_move /\ UNCHANGED <<phase, saved>>
Reset == GoGame_reset_game /\ UNCHANGED <<phase, saved>>

Next == PlaceStone \/ Pass \/ Undo \/ Redo \/ Reset

Spec == Init /\ [][Next]_vars

\* --------------------- the engine with any caller and the Handicap menu
InitHandicap == InitEngine /\ phase = "menu"

MenuPlaceStone == PlaceWithin(MaxMenuMoves) /\ UNCHANGED <<phase, saved>>
MenuPass ==
    pass_count < MaxPass /\ GoGame_pass_turn /\ UNCHANGED <<phase, saved>>
MenuUndo == GoGame_undo_move /\ UNCHANGED <<phase, saved>>
MenuRedo == GoGame_redo_move /\ UNCHANGED <<phase, saved>>
MenuReset == GoGame_reset_game /\ UNCHANGED <<phase, saved>>
MenuHandicap ==
    /\ \E stones_count \in HandicapCounts :
          GoGame_apply_handicap(stones_count)
    /\ UNCHANGED <<phase, saved>>

NextHandicap ==
    \/ MenuPlaceStone
    \/ MenuPass
    \/ MenuUndo
    \/ MenuRedo
    \/ MenuReset
    \/ MenuHandicap

SpecHandicap == InitHandicap /\ [][NextHandicap]_vars

\* ------------------------------- games of PlaceStone and Pass calls only
InitPlay == InitEngine /\ phase = "game"

PlayPlaceStone == PlaceWithin(MaxGame) /\ UNCHANGED <<phase, saved>>
PlayPass ==
    pass_count < MaxPass /\ GoGame_pass_turn /\ UNCHANGED <<phase, saved>>

NextPlay == PlayPlaceStone \/ PlayPass

SpecPlay == InitPlay /\ [][NextPlay]_vars

\* --------- the round-trip script: play, then undo all, then redo all
InitRoundTrip == InitEngine /\ phase = "play"

ScriptPlaceStone ==
    phase = "play" /\ PlaceWithin(MaxMoves) /\ UNCHANGED <<phase, saved>>
ScriptPass ==
    /\ phase = "play"
    /\ pass_count < MaxPass
    /\ GoGame_pass_turn
    /\ UNCHANGED <<phase, saved>>
ScriptUndo ==
    /\ phase \in {"play", "undo"}
    /\ move_history # <<>>
    /\ GoGame_undo_move
    /\ phase' = "undo"
    /\ saved' = IF phase = "play" THEN Saved ELSE saved
ScriptRedo ==
    /\ phase \in {"undo", "redo"}
    /\ phase = "undo" => move_history = <<>>
    /\ redo_stack # <<>>
    /\ GoGame_redo_move
    /\ phase' = "redo"
    /\ UNCHANGED saved

NextRoundTrip == ScriptPlaceStone \/ ScriptPass \/ ScriptUndo \/ ScriptRedo

SpecRoundTrip == InitRoundTrip /\ [][NextRoundTrip]_vars

\* ------------------------------------------------ notions of the rules
\* Group and liberty as the rules define them, by sets and not by a walk;
\* the properties below compare the engine's results with these.
Adjacent(a, b) ==
    \/ a[1] = b[1] /\ (a[2] - b[2] = 1 \/ b[2] - a[2] = 1)
    \/ a[2] = b[2] /\ (a[1] - b[1] = 1 \/ b[1] - a[1] = 1)

At(b, cell) == b[cell[1]][cell[2]]

RECURSIVE GrowGroup(_, _)
GrowGroup(b, s) ==
    LET more == {x \in Cells \ s :
                    \E y \in s : Adjacent(x, y) /\ At(b, x) = At(b, y)}
    IN  IF more = {} THEN s ELSE GrowGroup(b, s \cup more)

\* The maximal set of same-coloured cells connected to `cell`.
GroupOf(b, cell) == GrowGroup(b, {cell})

\* The distinct empty cells next to any cell of `grp`.
LibertiesOf(b, grp) ==
    {x \in Cells : At(b, x) = 0 /\ \E y \in grp : Adjacent(x, y)}

\* The board with a stone of `player` put on `cell`.
WithStone(b, player, cell) ==
    [r \in Idx |-> [c \in Idx |->
        IF <<r, c>> = cell THEN player ELSE b[r][c]]]

\* The opponent stones that a stone of `player` on `cell` leaves without
\* liberties, on the board `placed` that already holds the stone.
DeadNeighbours(placed, player, cell) ==
    UNION {GroupOf(placed, n) : n \in
              {x \in Cells : /\ Adjacent(x, cell)
                             /\ At(placed, x) = -player
                             /\ LibertiesOf(placed, GroupOf(placed, x)) = {}}}

\* The suicide rule of the rules text.
SuicideByRule(b, player, cell) ==
    LET placed == WithStone(b, player, cell)
    IN  /\ LibertiesOf(placed, GroupOf(placed, cell)) = {}
        /\ DeadNeighbours(placed, player, cell) = {}

EmptyCells == {rc \in Cells : At(board_state, rc) = 0}

\* ------------------- single calls, on every board play can leave behind
\* Every stone on the board belongs to a group with a liberty: the stones
\* next to an empty cell, and the stones joined to them, are all the stones.
RECURSIVE GrowAlive(_, _, _)
GrowAlive(b, stones, alive) ==
    LET more == {x \in stones \ alive :
                    \E y \in alive : Adjacent(x, y) /\ At(b, x) = At(b, y)}
    IN  IF more = {} THEN alive ELSE GrowAlive(b, stones, alive \cup more)

LegalBoard(b) ==
    LET stones == {x \in Cells : At(b, x) # 0}
        empty == Cells \ stones
        seed == {x \in stones : \E y \in empty : Adjacent(x, y)}
    IN  GrowAlive(b, stones, seed) = stones

\* Such a board is reached by play: each group is laid down stone by stone
\* from a stone next to one of its liberties, passes giving either colour the
\* turn, and no stone is captured on the way.  The repetition history starts
\* empty, which only widens the set of placements that are accepted.
InitQuery ==
    /\ board_size = QueryBoardSize
    /\ board_state \in [Idx -> [Idx -> {-1, 0, 1}]]
    /\ LegalBoard(board_state)
    /\ current_player \in {1, -1}
    /\ pass_count = reset_game.pass_count
    /\ black_score = reset_game.black_score
    /\ white_score = reset_game.white_score
    /\ previous_states = reset_game.previous_states
    /\ captured_stones = reset_game.captured_stones
    /\ move_history = <<>>
    /\ redo_stack = <<>>
    /\ last_call = Call("init", TRUE, "init", 0, 0, <<>>)
    /\ pre_states = <<>>
    /\ saved = Saved
    /\ phase = "query"

\* One PlaceStone call on the board given.
QueryPlaceStone ==
    /\ phase = "query"
    /\ \E rc \in PlaceInputs : GoGame_place_stone(rc[1], rc[2])
    /\ phase' = "answered"
    /\ UNCHANGED saved

\* One count_liberties(row, col) call with a fresh visited set, as
\* capture_stones and is_suicide make it; last_call keeps the count returned
\* and the visited set the call leaves to its caller.
QueryLiberties ==
    /\ phase = "query"
    /\ \E rc \in Cells :
          LET res == count_liberties(board_state, rc[1], rc[2], {})
          IN  last_call' = [Call("count_liberties", TRUE, "value", rc[1],
                                 rc[2], set_iteration(res.visited))
                               EXCEPT !.value = res.liberties]
    /\ phase' = "answered"
    /\ UNCHANGED <<board_size, board_state, current_player, pass_count,
                   black_score, white_score, previous_states,
                   captured_stones, move_history, redo_stack, pre_states,
                   saved>>

\* One calculate_territories() call on the board given; last_call keeps the
\* territories returned.
QueryTerritories ==
    /\ phase = "query"
    /\ last_call' = [Call("calculate_territories", TRUE, "value", 0, 0, <<>>)
                        EXCEPT !.scores = calculate_territories(board_state)]
    /\ phase' = "answered"
    /\ UNCHANGED <<board_size, board_state, current_player, pass_count,
                   black_score, white_score, previous_states,
                   captured_stones, move_history, redo_stack, pre_states,
                   saved>>

NextQuery == QueryPlaceStone \/ QueryLiberties \/ QueryTerritories

SpecQuery == InitQuery /\ [][NextQuery]_vars

\* ------------------------------------------------------------------ claims
\* C1: a rejected PlaceStone (out of bounds, occupied, suicide, repetition)
\* leaves board, current player, pass counter, capture tallies, repetition
\* history, move history and redo stack exactly as they were.
C1_RejectedPlaceChangesNothing ==
    [][(last_call'.op = "place_stone" /\ ~last_call'.valid)
          => UNCHANGED engine_vars]_vars

\* A rejection for repetition has happened (the provisional stone was placed
\* and the suicide check passed before the call was rejected).
C1_Witness ==
    /\ last_call.op = "place_stone"
    /\ ~last_call.valid
    /\ last_call.site = "ko"

\* C2: on an empty in-bounds cell the current player's placement is rejected
\* as suicide exactly when, with the stone placed, the mover's group has no
\* empty adjacent cell and no adjacent opponent group has zero liberties.
C2_SuicideExactlyByRule ==
    \A rc \in EmptyCells :
        (place_stone(Logic, rc[1], rc[2]).site = "suicide")
            <=> SuicideByRule(board_state, current_player, rc)

\* A suicide rejection has happened: the last call was a PlaceStone that the
\* suicide check turned down, and the rule names a suicide cell on the board.
C2_Witness ==
    /\ last_call.op = "place_stone"
    /\ last_call.site = "suicide"
    /\ \E rc \in EmptyCells : SuicideByRule(board_state, current_player, rc)

\* C3: an accepted PlaceStone at (row, col) returns exactly the coordinates
\* of the opponent groups next to (row, col) that have no liberty on the
\* board as it stands right after the stone is placed, each coordinate once;
\* afterwards those cells are empty, (row, col) holds the mover's stone and
\* every other cell is as before.
C3_CapturesExactlyDeadNeighbours ==
    [][(last_call'.op = "place_stone" /\ last_call'.valid) =>
          LET cell == <<last_call'.row, last_call'.col>>
              placed == WithStone(board_state, current_player, cell)
              dead == DeadNeighbours(placed, current_player, cell)
              cap == last_call'.captured
          IN  /\ At(board_state, cell) = 0
              /\ {cap[i] : i \in 1 .. Len(cap)} = dead
              /\ Len(cap) = Cardinality(dead)
              /\ \A x \in Cells :
                    At(board_state', x) =
                        IF x \in dead THEN 0
                        ELSE IF x = cell THEN current_player
                        ELSE At(board_state, x)]_vars

\* Two separate opponent groups were captured by one placement: the captured
\* coordinates are not all in the group of the first one.
C3_Witness ==
    /\ last_call.op = "place_stone"
    /\ last_call.valid
    /\ Len(last_call.captured) >= 2
    /\ \E i \in 1 .. Len(last_call.captured) :
          last_call.captured[i] \notin
              GroupOf(saved.board_state, last_call.captured[1])

\* C4: a PlaceStone on an empty in-bounds cell that is not suicide is
\* rejected if and only if the board with the stone provisionally placed
\* equals a snapshot held in the repetition history; a call rejected for this
\* reason leaves the stone retracted and board, turn and histories unchanged.
C4_RejectedIffSnapshotHeld ==
    \A rc \in EmptyCells :
        ~SuicideByRule(board_state, current_player, rc) =>
            LET res == place_stone(Logic, rc[1], rc[2])
                placed == WithStone(board_state, current_player, rc)
            IN  /\ ~res.valid <=>
                       \E i \in 1 .. Len(previous_states) :
                           previous_states[i] = placed
                /\ ~res.valid => res.site = "ko" /\ res.logic = Logic

C4_RepetitionRejectedCleanly ==
    /\ []C4_RejectedIffSnapshotHeld
    /\ [][last_call'.site = "ko" => UNCHANGED engine_vars]_vars

\* A call was rejected for repetition while the history held a snapshot
\* older than the latest one that equals the provisional board.
C4_Witness ==
    /\ last_call.op = "place_stone"
    /\ last_call.site = "ko"
    /\ \E rc \in EmptyCells : \E i \in 1 .. Len(previous_states) - 1 :
          /\ previous_states[i] = WithStone(board_state, current_player, rc)
          /\ ~SuicideByRule(board_state, current_player, rc)

\* C5: in a game of PlaceStone and Pass calls, no accepted placement leaves
\* the board as it stood after an earlier accepted placement of the game.
\* (Between placements the board does not change, so the board after the
\* j-th placement is the board at entry of the (j+1)-th.)
C5_NoBoardRecurs ==
    \A j \in 2 .. Len(pre_states) : pre_states[j].board_state # board_state

\* C6: after N accepted placements from the initial state, N Undo calls
\* leave the board all empty, and N Redo calls after them bring back the
\* board and both capture tallies that held before the first Undo.
C6_UndoAllRedoAll ==
    /\ (phase = "undo" /\ move_history = <<>>) =>
           \A x \in Cells : At(board_state, x) = 0
    /\ (phase = "redo" /\ redo_stack = <<>>) =>
           /\ board_state = saved.board_state
           /\ captured_stones = saved.captured_stones
           /\ black_score = saved.black_score
           /\ white_score = saved.white_score

\* The script has redone every move of a game of at least three placements
\* in which stones were captured.
C6_Witness ==
    /\ phase = "redo"
    /\ redo_stack = <<>>
    /\ Len(move_history) >= 3
    /\ saved.captured_stones.black + saved.captured_stones.white > 0

\* The tallies and scores of the engine with the mover's count changed by d.
TalliesAfter(player, d) ==
    [captured_stones |->
         IF player = 1 THEN [captured_stones EXCEPT !.black = @ + d]
         ELSE [captured_stones EXCEPT !.white = @ + d],
     black_score |-> IF player = 1 THEN black_score + d ELSE black_score,
     white_score |-> IF player = 1 THEN white_score ELSE white_score + d]

C9_AcceptedPlaceBookkeeping ==
    [][(last_call'.op = "place_stone" /\ last_call'.valid) =>
          LET P == current_player
              removed == {x \in Cells : /\ At(board_state, x) = -P
                                        /\ At(board_state', x) = 0}
              k == Cardinality(removed)
              tallies == TalliesAfter(P, k)
              rec == move_history'[Len(move_history')]
          IN  /\ captured_stones' = tallies.captured_stones
              /\ black_score' = tallies.black_score
              /\ white_score' = tallies.white_score
              /\ Len(previous_states') = Len(previous_states) + 1
              /\ SubSeq(previous_states', 1, Len(previous_states))
                     = previous_states
              /\ Len(move_history') = Len(move_history) + 1
              /\ SubSeq(move_history', 1, Len(move_history)) = move_history
              /\ rec.row = last_call'.row
              /\ rec.col = last_call'.col
              /\ At(board_state', <<rec.row, rec.col>>) = P
              /\ At(board_state, <<rec.row, rec.col>>) = 0
              /\ rec.player = P
              /\ {rec.captured[i] : i \in 1 .. Len(rec.captured)} = removed
              /\ Len(rec.captured) = k
              /\ redo_stack' = <<>>
              /\ current_player' = -P
              /\ pass_count' = 0]_vars

\* White has just captured a stone by an accepted placement, the third
\* placement or later of the game.
C9_Witness ==
    /\ last_call.op = "place_stone"
    /\ last_call.valid
    /\ last_call.captured # <<>>
    /\ current_player = 1
    /\ captured_stones.white = Len(last_call.captured)
    /\ Len(move_history) >= 3

\* C10: the liberty count returned for an occupied cell is the number of
\* distinct empty cells next to any stone of the cell's group.
C10_LibertiesCountedOnce ==
    (last_call.op = "count_liberties"
        /\ At(board_state, <<last_call.row, last_call.col>>) # 0) =>
        last_call.value =
            Cardinality(LibertiesOf(board_state,
                GroupOf(board_state, <<last_call.row, last_call.col>>)))

\* The maximal orthogonally connected region of empty cells around `cell`,
\* the colours of the stones next to it, and the territory the rules give
\* to `colour`: the cells of the regions bordered by that colour alone.
BorderColours(b, region) ==
    {At(b, x) : x \in {y \in Cells : /\ At(b, y) # 0
                                     /\ \E z \in region : Adjacent(y, z)}}

TerritoryByRule(b, colour) ==
    Cardinality({x \in Cells : /\ At(b, x) = 0
                               /\ BorderColours(b, GroupOf(b, x)) = {colour}})

\* C11: for every board, each maximal region of empty cells counts for the
\* one colour whose stones border it, and for neither colour when stones of
\* both colours or no stones border it; also for a region that shares
\* bordering stones with a region scanned earlier.
C11_TerritoryByBorderColour ==
    last_call.op = "calculate_territories" =>
        /\ last_call.scores.black = TerritoryByRule(board_state, 1)
        /\ last_call.scores.white = TerritoryByRule(board_state, -1)

\* C12: in every reachable state GetScores returns, for each colour, that
\* colour's capture tally plus its current territory, without komi.  The
\* territory is the one calculate_territories reports for the board.
C12_ScoreIsCapturesPlusTerritory ==
    /\ get_scores(Logic).black =
           captured_stones.black + calculate_territories(board_state).black
    /\ get_scores(Logic).white =
           captured_stones.white + calculate_territories(board_state).white
    /\ (last_call.op \in {"place_stone", "undo_move", "redo_move",
                          "reset_game"} /\ last_call.valid) =>
           last_call.scores = get_scores(Logic)

\* C13: in every reachable state GetFinalScores returns, in half points,
\* for White twice (tally + territory) plus 13 and for Black twice
\* (tally + territory); the final scores a game-ending pass shows are these.
C13_FinalAddsKomiToWhiteOnly ==
    LET territories == calculate_territories(board_state)
        final == get_final_scores(Logic, territories)
    IN  /\ final.white - 2 * (captured_stones.white + territories.white)
               = KomiHalves
        /\ final.black - 2 * (captured_stones.black + territories.black) = 0
        /\ (last_call.op = "pass_turn" /\ is_game_over(Logic)) =>
               last_call.final = final

\* What the caller of GameLogic.place_stone gets back: None, or the list of
\* captured positions.
ReturnValue(res) == [valid |-> res.valid, captured |-> res.captured]

\* The kinds of rejection the claim tells apart.
RejectionKind(res) ==
    IF res.site \in {"bounds", "occupied"} THEN "target" ELSE res.site

C15_NoPlacementAfterGameOver ==
    [][(is_game_over(Logic) /\ last_call'.op = "place_stone") =>
          UNCHANGED <<board_state, current_player, pass_count>>]_vars

\* C16: once the pass counter has reached 2 a further Pass neither
\* increments the pass counter nor flips the current player.
C16_NoPassAfterGameOver ==
    [][(is_game_over(Logic) /\ last_call'.op = "pass_turn") =>
          UNCHANGED <<pass_count, current_player>>]_vars

\* C17: Undo with an empty move history and Redo with an empty redo stack
\* leave board, current player, pass counter, capture tallies, repetition
\* history, move history and redo stack unchanged.
C17_EmptyUndoRedoChangeNothing ==
    [][/\ (last_call'.op = "undo_move" /\ move_history = <<>>) =>
              /\ UNCHANGED engine_vars
              /\ ~last_call'.valid
       /\ (last_call'.op = "redo_move" /\ redo_stack = <<>>) =>
              /\ UNCHANGED engine_vars
              /\ ~last_call'.valid]_vars

\* Undo was called with an empty move history while moves were waiting on
\* the redo stack and a pass had been made.
C17_Witness ==
    /\ last_call.op = "undo_move"
    /\ ~last_call.valid
    /\ move_history = <<>>
    /\ redo_stack # <<>>
    /\ pass_count > 0

\* C18: after a successful Redo of a record whose mover is P the current
\* player is the opponent of P.
C18_RedoGivesTurnToOpponent ==
    [][(last_call'.op = "redo_move" /\ last_call'.valid) =>
          current_player' = -redo_stack[Len(redo_stack)].player]_vars

\* C19: when the placement replayed by Redo fails validation, board,
\* current player, pass counter, capture tallies, repetition history and
\* move history are unchanged and the redo stack still holds the same records
\* in the same order.
C19_FailedRedoIsNoOp ==
    [][(last_call'.op = "redo_move" /\ ~last_call'.valid
           /\ redo_stack # <<>>) =>
          UNCHANGED engine_vars]_vars

\* C20: after an accepted PlaceStone the most recent entry of the
\* repetition history equals the board as it stands when PlaceStone returns,
\* with the captured stones already removed.
C20_LatestSnapshotIsBoard ==
    (last_call.op = "place_stone" /\ last_call.valid) =>
        /\ previous_states # <<>>
        /\ previous_states[Len(previous_states)]
               = get_board_state_snapshot(board_state)

\* C21: for every board the territory scan counts every empty cell in
\* exactly one region, none twice and none skipped, and black territory
\* plus white territory is at most the number of empty cells.
C21_EveryEmptyCellCountedOnce ==
    last_call.op = "calculate_territories" =>
        LET walks == territory_walks(board_state)
            counts(x) ==
                Cardinality({p \in {<<w, k>> : w \in 1 .. Len(walks),
                                               k \in 1 .. board_size * board_size} :
                                /\ p[2] <= Len(walks[p[1]])
                                /\ walks[p[1]][p[2]] = x})
        IN  /\ \A x \in Cells :
                  counts(x) = IF At(board_state, x) = 0 THEN 1 ELSE 0
            /\ \A w \in 1 .. Len(walks) :
                  Len(walks[w]) <= board_size * board_size
            /\ last_call.scores.black + last_call.scores.white
                   <= Cardinality(EmptyCells)

\* The scan has run on a board with two separate empty regions, of which
\* one has two cells or more and one counts as territory.
C21_Witness ==
    /\ last_call.op = "calculate_territories"
    /\ Len(territory_walks(board_state)) >= 2
    /\ \E w \in 1 .. Len(territory_walks(board_state)) :
          Len(territory_walks(board_state)[w]) >= 2
    /\ last_call.scores.black + last_call.scores.white > 0

\* The pass counter is at least 1 in the state a Pass leaves.
C22_PassCountAfterPass == last_call.op = "pass_turn" => pass_count >= 1

\* C22: Undo never changes the pass counter, so an Undo in GameOver leaves
\* IsGameOver() true, and a Pass, an Undo and another Pass in sequence end
\* the game.  The sequence is covered in three parts: the counter is at
\* least 1 after every Pass, an Undo keeps it and is the last call of the
\* state it leaves, and a Pass made from such a state ends the game.
C22_UndoKeepsPassCount ==
    /\ []C22_PassCountAfterPass
    /\ [][/\ last_call'.op = "undo_move" =>
                /\ pass_count' = pass_count
                /\ is_game_over(Logic) =>
                       is_game_over([pass_count |-> pass_count'])
          /\ (last_call.op = "pass_turn" /\ last_call'.op = "undo_move") =>
                pass_count' >= 1
          /\ (last_call.op = "undo_move" /\ pass_count >= 1
                 /\ last_call'.op = "pass_turn") =>
                is_game_over([pass_count |-> pass_count'])]_vars

\* A placement has been undone after the two passes that ended the game,
\* and the game is still over.
C22_Witness ==
    /\ last_call.op = "undo_move"
    /\ last_call.valid
    /\ is_game_over(Logic)

\* C23: after Reset, from any reachable state, every cell is empty, the
\* current player is Black, the pass counter is 0, both capture tallies are
\* 0, and repetition history, move history and redo stack are empty.
C23_ResetGivesInitialState ==
    [][last_call'.op = "reset_game" =>
          /\ \A x \in Cells : At(board_state', x) = 0
          /\ current_player' = 1
          /\ pass_count' = 0
          /\ ~is_game_over([pass_count |-> pass_count'])
          /\ captured_stones' = [black |-> 0, white |-> 0]
          /\ black_score' = 0
          /\ white_score' = 0
          /\ previous_states' = <<>>
          /\ move_history' = <<>>
          /\ redo_stack' = <<>>]_vars

\* Reset has just been called; the labels it refreshed show the scores of
\* the empty board.
C23_Witness ==
    /\ last_call.op = "reset_game"
    /\ last_call.scores = [black |-> 0, white |-> 0]
    /\ move_history = <<>>

\* C24: in every state reachable by PlaceStone, Pass, Undo, Redo and Reset
\* every board cell holds Empty (0), Black (1) or White (-1), and the
\* current player is Black or White.
C24_CellsAndPlayerWellFormed ==
    /\ \A x \in Cells : At(board_state, x) \in {0, 1, -1}
    /\ current_player \in {1, -1}

\* A move has been redone on a board that holds stones of both colours.
C24_Witness ==
    /\ last_call.op = "redo_move"
    /\ last_call.valid
    /\ \E x \in Cells : At(board_state, x) = 1
    /\ \E x \in Cells : At(board_state, x) = -1

C26_EmptySeedYieldsNothing ==
    (last_call.op = "count_liberties"
        /\ At(board_state, <<last_call.row, last_call.col>>) = 0) =>
        /\ last_call.value = 0
        /\ last_call.captured = <<>>

\* C26, amended: the liberty query started on an empty cell yields the
\* number of empty cells next to the seed, and a visited set that holds the
\* seed and nothing else.
C26_EmptySeedCountsEmptyNeighbours ==
    (last_call.op = "count_liberties"
        /\ At(board_state, <<last_call.row, last_call.col>>) = 0) =>
        LET seed == <<last_call.row, last_call.col>>
        IN  /\ last_call.value =
                   Cardinality({x \in Cells : /\ Adjacent(x, seed)
                                              /\ At(board_state, x) = 0})
            /\ last_call.captured = <<seed>>

\* The query has run on an empty cell that has an empty cell and a stone
\* next to it.
C26_Witness ==
    /\ last_call.op = "count_liberties"
    /\ At(board_state, <<last_call.row, last_call.col>>) = 0
    /\ last_call.value >= 1
    /\ \E x \in Cells : /\ Adjacent(x, <<last_call.row, last_call.col>>)
                        /\ At(board_state, x) # 0

\* C27: a Pass increments the pass counter by exactly 1 and flips the
\* current player, and leaves the board, both capture tallies, the
\* repetition history, the move history and the redo stack unchanged.
C27_PassTouchesCounterAndTurnOnly ==
    [][last_call'.op = "pass_turn" =>
          /\ pass_count' = pass_count + 1
          /\ current_player' = -current_player
          /\ UNCHANGED <<board_state, captured_stones, black_score,
                         white_score, previous_states, move_history,
                         redo_stack>>]_vars

\* A Pass has been made while a move was waiting for redo and another was
\* in the move history; the redo is still pending.
C27_Witness ==
    /\ last_call.op = "pass_turn"
    /\ redo_stack # <<>>
    /\ move_history # <<>>

\* A sequence of cells without repetitions, no longer than the board.
VisitsEachCellOnce(seq) ==
    /\ Len(seq) <= board_size * board_size
    /\ \A i, j \in 1 .. Len(seq) : seq[i] = seq[j] => i = j

\* C28: for every board the liberty traversal started at any cell and the
\* territory flood-fill come to an end, each visiting every cell at most
\* once, and PlaceStone returns an outcome.  The traversals are evaluated
\* to their results on every board; their histories are the cells for which
\* the body of count_liberties ran and the cells each walk of the scan took
\* off its queue.
C28_TraversalsVisitOnceAndEnd ==
    /\ last_call.op = "count_liberties" =>
          LET res == count_liberties(board_state, last_call.row,
                                     last_call.col, {})
          IN  /\ VisitsEachCellOnce(res.entered)
              /\ {res.entered[i] : i \in 1 .. Len(res.entered)} = res.visited
              /\ last_call.value = res.liberties
              /\ last_call.value <= 4 * board_size * board_size
    /\ last_call.op = "calculate_territories" =>
          LET walks == territory_walks(board_state)
          IN  /\ Len(walks) <= board_size * board_size
              /\ \A w \in 1 .. Len(walks) : VisitsEachCellOnce(walks[w])
              /\ \A v, w \in 1 .. Len(walks) :
                    v # w => \A i \in 1 .. Len(walks[v]) :
                                 \A j \in 1 .. Len(walks[w]) :
                                     walks[v][i] # walks[w][j]
    /\ last_call.op = "place_stone" =>
          last_call.site \in {"bounds", "occupied", "suicide", "ko",
                              "accepted"}

\* The liberty traversal has run on a group of four stones that closes a
\* ring, where a walk that forgot its visited cells would come round again.
C28_Witness ==
    /\ last_call.op = "count_liberties"
    /\ At(board_state, <<last_call.row, last_call.col>>) # 0
    /\ Len(last_call.captured) >= 4
    /\ \E x \in Cells :
          {x, <<x[1] + 1, x[2]>>, <<x[1], x[2] + 1>>, <<x[1] + 1, x[2] + 1>>}
              \subseteq {last_call.captured[i] :
                            i \in 1 .. Len(last_call.captured)}

\* C29: after any sequence of PlaceStone, Pass, Undo and Redo every group
\* of stones on the board has at least one liberty.
C29_EveryGroupHasALiberty ==
    \A x \in Cells :
        At(board_state, x) # 0 =>
            LibertiesOf(board_state, GroupOf(board_state, x)) # {}

\* A capturing move has been undone and redone, and the board holds a group
\* of two stones or more.
C29_Witness ==
    /\ last_call.op = "redo_move"
    /\ last_call.valid
    /\ last_call.captured # <<>>
    /\ \E x \in Cells : /\ At(board_state, x) # 0
                        /\ Cardinality(GroupOf(board_state, x)) >= 2

\* What C30 says of one count_liberties call on board b from the occupied
\* cell x.
LibertyQueryByRule(b, x) ==
    LET res == count_liberties(b, x[1], x[2], {})
    IN  /\ res.liberties = 0 <=> LibertiesOf(b, GroupOf(b, x)) = {}
        /\ res.visited = GroupOf(b, x)

\* C30: for every board and every occupied seed cell the liberty count
\* returned is 0 exactly when no stone of the seed's group has an empty
\* neighbour, and the visited set returned is exactly the seed's group.
\* The boards are the positions between operations and, as capture_stones
\* and is_suicide meet them, the same with one more stone of the mover
\* provisionally placed.
C30_ZeroIffNoLibertyAndVisitedIsGroup ==
    /\ (last_call.op = "count_liberties"
           /\ At(board_state, <<last_call.row, last_call.col>>) # 0) =>
          LET seed == <<last_call.row, last_call.col>>
              grp == GroupOf(board_state, seed)
          IN  /\ last_call.value = 0 <=> LibertiesOf(board_state, grp) = {}
              /\ {last_call.captured[i] :
                     i \in 1 .. Len(last_call.captured)} = grp
              /\ Len(last_call.captured) = Cardinality(grp)
    /\ phase = "query" =>
          \A rc \in EmptyCells :
              LET placed == provisional(board_state, current_player,
                                        rc[1], rc[2])
              IN  \A x \in Cells :
                      At(placed, x) # 0 => LibertyQueryByRule(placed, x)

\* A placement has captured a group of two or more stones: the call that
\* capture_stones made for it on the board with the new stone returned 0,
\* and the cells it visited, which are the cells removed, are that group.
C30_Witness ==
    /\ phase = "answered"
    /\ last_call.op = "place_stone"
    /\ last_call.valid
    /\ Len(last_call.captured) >= 2
    /\ LET placed == provisional(saved.board_state, -current_player,
                                 last_call.row, last_call.col)
           x == last_call.captured[1]
       IN  /\ count_liberties(placed, x[1], x[2], {}).liberties = 0
           /\ {last_call.captured[i] : i \in 1 .. Len(last_call.captured)}
                  = GroupOf(placed, x)

\* The number of records of `colour` among the first n move records, and
\* the number of stones those records captured.
RECURSIVE RecordsBy(_, _)
RecordsBy(colour, n) ==
    IF n = 0 THEN 0
    ELSE RecordsBy(colour, n - 1)
             + (IF move_history[n].player = colour THEN 1 ELSE 0)

RECURSIVE CapturedBy(_, _)
CapturedBy(colour, n) ==
    IF n = 0 THEN 0
    ELSE CapturedBy(colour, n - 1)
             + (IF move_history[n].player = colour
                THEN Len(move_history[n].captured) ELSE 0)

StonesOf(colour) ==
    Cardinality({x \in Cells : At(board_state, x) = colour})

\* C31: in every state reachable by PlaceStone, Pass, Undo, Redo and Reset
\* each colour's capture tally is non-negative and is the sum of the sizes
\* of the captured sets of that colour's move records, and the stones of a
\* colour on the board number that colour's move records minus the
\* opponent's tally.
C31_TalliesMatchMoveRecords ==
    LET n == Len(move_history)
    IN  /\ captured_stones.black >= 0
        /\ captured_stones.white >= 0
        /\ captured_stones.black = CapturedBy(1, n)
        /\ captured_stones.white = CapturedBy(-1, n)
        /\ StonesOf(1) = RecordsBy(1, n) - captured_stones.white
        /\ StonesOf(-1) = RecordsBy(-1, n) - captured_stones.black

\* A capturing move has been undone and redone: the tally went down and
\* up again, and both colours have records in the move history.
C31_Witness ==
    /\ last_call.op = "redo_move"
    /\ last_call.valid
    /\ last_call.captured # <<>>
    /\ captured_stones.black + captured_stones.white > 0
    /\ RecordsBy(1, Len(move_history)) > 0
    /\ RecordsBy(-1, Len(move_history)) > 0

\* The snapshot place_stone appends for move record i: the board at the
\* entry of the call with the new stone on it, before any capture.
SnapshotOfRecord(i) ==
    get_board_state_snapshot(
        WithStone(pre_states[i].board_state, move_history[i].player,
                  <<move_history[i].row, move_history[i].col>>))

C32_HistoriesAligned ==
    /\ Len(previous_states) = Len(move_history)
    /\ \A i \in 1..Len(move_history) : previous_states[i] = SnapshotOfRecord(i)

C32_UndoRedoKeepTotal ==
    last_call'.op \in {"undo_move", "redo_move"}
        => Len(move_history') + Len(redo_stack')
               = Len(move_history) + Len(redo_stack)

\* C32: in every state reachable by PlaceStone, Pass, Undo, Redo and Reset
\* the repetition history has as many entries as the move history and its
\* i-th entry is the snapshot recorded for the i-th move record; Undo and
\* Redo keep the sum of the lengths of move history and redo stack.
C32_RepetitionHistoryFollowsMoves ==
    [](C32_HistoriesAligned) /\ [][C32_UndoRedoKeepTotal]_vars

\* A move was redone while another still waits on the redo stack, and a
\* capture made the board differ from the snapshot of the last record.
C32_Witness ==
    /\ last_call.op = "redo_move"
    /\ last_call.valid
    /\ redo_stack # <<>>
    /\ Len(move_history) >= 2
    /\ \E i \in 1..Len(move_history) : move_history[i].captured # <<>>

SetOf(seq) == {seq[i] : i \in 1..Len(seq)}

C33_RedoReplaysTheRecord ==
    (last_call'.op = "redo_move" /\ redo_stack # <<>>)
        => LET rec == redo_stack[Len(redo_stack)]
           IN  /\ last_call'.valid
               /\ SetOf(last_call'.captured) = SetOf(rec.captured)
               /\ Len(last_call'.captured) = Len(rec.captured)
               /\ \A x \in SetOf(rec.captured) :
                      /\ At(board_state, x) = -rec.player
                      /\ At(board_state', x) = 0
               /\ At(board_state', <<rec.row, rec.col>>) = rec.player
               /\ redo_stack' = SubSeq(redo_stack, 1, Len(redo_stack) - 1)
               /\ move_history' =
                      Append(move_history,
                             [rec EXCEPT !.captured = last_call'.captured])

\* C33: in every state reachable by PlaceStone, Pass, Undo, Redo and Reset
\* a Redo with a non-empty redo stack passes validation, captures exactly
\* the stones recorded in the redone record, pops exactly that record from
\* the redo stack and appends it, with the recomputed captures, to the move
\* history.
C33_RedoAlwaysSucceeds == [][C33_RedoReplaysTheRecord]_vars

\* A capturing move of White was redone as the third move or later.
C33_Witness ==
    /\ last_call.op = "redo_move"
    /\ last_call.valid
    /\ last_call.captured # <<>>
    /\ Len(move_history) >= 3
    /\ move_history[Len(move_history)].player = -1
    /\ move_history[Len(move_history)].captured = last_call.captured

====
